---------------------------- MODULE Spec2Model ----------------------------
(***************************************************************************)
(* A model of fastgltf's base64 decoder (src/src/base64_decode.cpp) and of *)
(* the Category / parse-session interface declared in the public header    *)
(* (src/unnamed/part_001).                                                 *)
(*                                                                         *)
(* Bytes and characters are naturals 0..255 (ASCII codes).  A size_t value *)
(* v is represented by the integer v when v < 2^63 and by v - 2^64         *)
(* otherwise (the two's complement reading of its 64 bits): all size_t     *)
(* arithmetic of the decoder stays within a few units of 0 or of 2^64, so  *)
(* + and - on representatives are exact modulo 2^64, and the unsigned      *)
(* comparison is UGeq below.                                               *)
(***************************************************************************)
EXTENDS Integers, Sequences, FiniteSets, TLC

(***************************************************************************)
(* Bounds of the model.                                                    *)
(***************************************************************************)
\* leading 4-character groups put in front of the variable tail of an input
MaxLead == 9
\* length of the variable tail of a plain byte sequence
MaxTail == 2
\* '=' bytes an out-of-bounds read may return before it faults or differs
MaxWild == 3
\* identifiers in the extensionsRequired list of a document
MaxRequired == 2
\* getParsedAsset calls on a session
MaxRetrievals == 3
\* 4-character groups added to each base length of the resize's inputs
MaxGroups == 8

(***************************************************************************)
(* Characters.                                                             *)
(***************************************************************************)
\* '=' (base64_decode.cpp:54, 126, 178)
PadChar == 61

\* static const std::string base64_chars (base64_decode.cpp:163-166)
base64_chars ==
    <<65, 66, 67, 68, 69, 70, 71, 72, 73, 74, 75, 76, 77,
      78, 79, 80, 81, 82, 83, 84, 85, 86, 87, 88, 89, 90,
      97, 98, 99, 100, 101, 102, 103, 104, 105, 106, 107, 108, 109,
      110, 111, 112, 113, 114, 115, 116, 117, 118, 119, 120, 121, 122,
      48, 49, 50, 51, 52, 53, 54, 55, 56, 57, 43, 47>>

Min(a, b) == IF a < b THEN a ELSE b

\* n copies of the sequence s
RECURSIVE Repeat(_, _)
Repeat(s, n) == IF n = 0 THEN <<>> ELSE s \o Repeat(s, n - 1)

\* all sequences over S of length 0..n
RECURSIVE SeqsUpTo(_, _)
SeqsUpTo(S, n) ==
    IF n = 0 THEN {<<>>}
    ELSE LET shorter == SeqsUpTo(S, n - 1)
         IN shorter \cup {Append(s, x) : s \in {t \in shorter : Len(t) = n - 1}, x \in S}

(***************************************************************************)
(* Results of a call.  A call returns a byte vector ("ok"), dies on an     *)
(* invalid memory access ("fault"), or leaves by the std::length_error     *)
(* that std::vector::resize throws for a size above max_size().            *)
(***************************************************************************)
NotCalled == [kind |-> "none", bytes |-> <<>>]
Ok(bytes) == [kind |-> "ok", bytes |-> bytes]
Fault == [kind |-> "fault", bytes |-> <<>>]
LengthError == [kind |-> "length_error", bytes |-> <<>>]

(***************************************************************************)
(* size_t (see the header comment).                                        *)
(***************************************************************************)
\* a >= b on size_t
UGeq(a, b) == IF (a >= 0) = (b >= 0) THEN a >= b ELSE a < 0

(***************************************************************************)
(* Undefined behaviour: input[i] with i outside the vector.  What the read *)
(* yields is not fixed by the program; a run of the model fixes, per call, *)
(* how many such reads return '=' (eqs) before one either faults or        *)
(* returns some other byte (end).                                          *)
(***************************************************************************)
WildReads == [eqs : 0..MaxWild, end : {"fault", "byte"}]

\* the k-th out-of-bounds read of a call: "eq", "fault" or "byte"
WildRead(w, k) == IF k <= w.eqs THEN "eq" ELSE w.end

\* one of them, for a call that reads nothing out of bounds
NoWild == [eqs |-> 0, end |-> "byte"]

(***************************************************************************)
(* The vector decoders (base64_decode.cpp:20-161).                         *)
(***************************************************************************)
\* constexpr auto dataSetSize = 32 (avx2_decode)
avx2_dataSetSize == 32
\* constexpr auto dataSetSize = 16 (sse4_decode)
sse4_dataSetSize == 16

\* (encodedSize + dataSetSize - 1) & -dataSetSize
AlignUp(encodedSize, dataSetSize) ==
    ((encodedSize + dataSetSize - 1) \div dataSetSize) * dataSetSize

\* std::vector<uint8_t> input(aligned size), zero filled, then the memcpy of
\* the encoded characters to its front
PaddedInput(encoded, dataSetSize) ==
    encoded \o Repeat(<<0>>, AlignUp(Len(encoded), dataSetSize) - Len(encoded))

\* The padding search, from index i on, with `padding` counted and the
\* indices in `reads` read so far, `oob` of them outside the vector.
\*   for (auto i = encodedSize - 1; i >= (encodedSize - 3); --i)
\*       if (input[i] == '=') ++padding; else break;
RECURSIVE PaddingLoop(_, _, _, _, _, _, _)
PaddingLoop(input, encodedSize, w, i, padding, reads, oob) ==
    IF ~UGeq(i, encodedSize - 3)
    THEN [padding |-> padding, fault |-> FALSE, reads |-> reads, oob |-> oob]
    ELSE IF 0 <= i /\ i < Len(input)
    THEN IF input[i + 1] = PadChar
         THEN PaddingLoop(input, encodedSize, w, i - 1, padding + 1,
                          Append(reads, i), oob)
         ELSE [padding |-> padding, fault |-> FALSE,
               reads |-> Append(reads, i), oob |-> oob]
    ELSE LET got == WildRead(w, oob + 1) IN
         IF got = "eq"
         THEN PaddingLoop(input, encodedSize, w, i - 1, padding + 1,
                          Append(reads, i), oob + 1)
         ELSE [padding |-> padding, fault |-> (got = "fault"),
               reads |-> Append(reads, i), oob |-> oob + 1]

PaddingSearch(input, encodedSize, w) ==
    PaddingLoop(input, encodedSize, w, encodedSize - 1, 0, <<>>, 0)

\* The outcomes of out-of-bounds reads that tell calls on `encoded` apart: a
\* call whose padding search stays inside the vector under one of them never
\* consults any, so one stands for all.
WildReadsOf(encoded, dataSetSize) ==
    IF PaddingSearch(PaddedInput(encoded, dataSetSize), Len(encoded), NoWild).oob = 0
    THEN {NoWild}
    ELSE WildReads

\* const auto shiftLUT = _mm256_setr_epi8(...) / _mm_setr_epi8(...), one lane
shiftLUT == <<0, 0, 19, 4, -65, -65, -71, -71, 0, 0, 0, 0, 0, 0, 0, 0>>

\* lookup_pshufb_bitmask / sse4_lookup_pshufb_bitmask on one byte of the vector
lookup_pshufb_bitmask(input) ==
    LET higher_nibble == (input \div 16) % 16
        sh == shiftLUT[higher_nibble + 1]
        eq_2f == (input = 47)
        shift == IF eq_2f THEN 16 ELSE sh
    IN (input + shift) % 256

\* signed saturation of _mm_maddubs_epi16
Saturate16(x) == IF x > 32767 THEN 32767 ELSE IF x < -32768 THEN -32768 ELSE x

\* pack_ints / sse4_pack_ints on the four bytes of one 32-bit element:
\* maddubs with 0x01400140 (bytes 0x40, 0x01), then madd with 0x00011000
\* (words 0x1000, 0x0001)
pack_ints(b0, b1, b2, b3) ==
    LET merge0 == Saturate16(b0 * 64 + b1 * 1)
        merge1 == Saturate16(b2 * 64 + b3 * 1)
    IN merge0 * 4096 + merge1 * 1

\* bytes 2, 1, 0 of one 32-bit element, as the shuffle picks them (v is never
\* negative: both madd operands are)
ShuffleElement(v) ==
    <<(v \div 65536) % 256, (v \div 256) % 256, v % 256>>

\* one 128-bit lane: the 16 bytes of input from offset pos on, looked up,
\* packed and shuffled to 12 bytes followed by the four zeros of the 0xff
\* shuffle indices
ShuffledLane(input, pos) ==
    LET element(e) ==
            ShuffleElement(pack_ints(lookup_pshufb_bitmask(input[pos + 4 * e + 1]),
                                     lookup_pshufb_bitmask(input[pos + 4 * e + 2]),
                                     lookup_pshufb_bitmask(input[pos + 4 * e + 3]),
                                     lookup_pshufb_bitmask(input[pos + 4 * e + 4])))
    IN element(0) \o element(1) \o element(2) \o element(3) \o <<0, 0, 0, 0>>

\* _mm_storeu_si128 of 16 bytes at ret.data() + out
Store16(ret, out, bytes) ==
    SubSeq(ret, 1, out) \o bytes \o SubSeq(ret, out + 17, Len(ret))

\* ret.resize(newSize)
Resize(ret, newSize) ==
    IF newSize <= Len(ret) THEN SubSeq(ret, 1, newSize)
    ELSE ret \o Repeat(<<0>>, newSize - Len(ret))

\* the padding search of a call on `encoded`, as a record of what it counted
\* and which indices of `input` it read
PaddingScan(encoded, dataSetSize, w) ==
    PaddingSearch(PaddedInput(encoded, dataSetSize), Len(encoded), w)

\* of a call that makes no padding search (fallback_decode)
NoScan == [padding |-> 0, fault |-> FALSE, reads |-> <<>>, oob |-> 0]

\* float (IEEE 754 binary32) has a significand of 24 bits
SignificandLimit == 16777216

\* the spacing of the floats around q: the least power of two u with
\* q < 2^24 * u
RECURSIVE UlpFrom(_, _)
UlpFrom(q, u) == IF q \div u < SignificandLimit THEN u ELSE UlpFrom(q, 2 * u)

\* q rounded to 24 significant bits, to nearest, ties to even: the float
\* nearest to q, for q >= 0.  Scaling by a power of two commutes with it.
RoundToFloat(q) ==
    LET u == UlpFrom(q, 1)
        lower == (q \div u) * u
        rem == q - lower
    IN IF 2 * rem < u THEN lower
       ELSE IF 2 * rem > u THEN lower + u
       ELSE IF (lower \div u) % 2 = 0 THEN lower ELSE lower + u

\* std::floor(diff * 0.75f) for diff = static_cast<float>(n): the product
\* 3 * diff / 4 is rounded to a float in units of a quarter, then floored
DecodedSize(n) == RoundToFloat(3 * RoundToFloat(n)) \div 4

\* auto diff = static_cast<float>(encodedSize - padding);
\* ret.resize(std::floor(diff * 0.75f));
\* A padding count above encodedSize wraps the size_t difference to about
\* 2^64, and resize throws for a size above max_size().
ResizeToDecoded(ret, encodedSize, padding) ==
    LET diff == encodedSize - padding
    IN IF diff < 0 THEN LengthError
       ELSE Ok(Resize(ret, DecodedSize(diff)))

\* `out` at the end of the block loop: 24 (avx2_decode) or 12 (sse4_decode)
\* bytes for each block of dataSetSize characters
BlockLoopOut(size, dataSetSize) ==
    (AlignUp(size, dataSetSize) \div dataSetSize) * ((dataSetSize \div 4) * 3)

\* the block loop of avx2_decode (base64_decode.cpp:64-87)
RECURSIVE avx2_blocks(_, _, _)
avx2_blocks(input, pos, ret) ==
    IF ~(pos < Len(input)) THEN ret
    ELSE LET out == (pos \div avx2_dataSetSize) * 24
             lo == Store16(ret, out, ShuffledLane(input, pos))
             hi == Store16(lo, out + 12, ShuffledLane(input, pos + 16))
         IN avx2_blocks(input, pos + avx2_dataSetSize, hi)

avx2_decode(encoded, w) ==
    LET encodedSize == Len(encoded)
        input == PaddedInput(encoded, avx2_dataSetSize)
        search == PaddingSearch(input, encodedSize, w)
        length == Len(input)
        ret == avx2_blocks(input, 0, Repeat(<<0>>, length))
    IN IF search.fault THEN Fault
       ELSE ResizeToDecoded(ret, encodedSize, search.padding)

\* the block loop of sse4_decode (base64_decode.cpp:136-153)
RECURSIVE sse4_blocks(_, _, _)
sse4_blocks(input, pos, ret) ==
    IF ~(pos < Len(input)) THEN ret
    ELSE LET out == (pos \div sse4_dataSetSize) * 12
         IN sse4_blocks(input, pos + sse4_dataSetSize,
                        Store16(ret, out, ShuffledLane(input, pos)))

sse4_decode(encoded, w) ==
    LET encodedSize == Len(encoded)
        input == PaddedInput(encoded, sse4_dataSetSize)
        search == PaddingSearch(input, encodedSize, w)
        length == Len(input)
        ret == sse4_blocks(input, 0, Repeat(<<0>>, length))
    IN IF search.fault THEN Fault
       ELSE ResizeToDecoded(ret, encodedSize, search.padding)

(***************************************************************************)
(* The scalar decoder (base64_decode.cpp:168-215).                         *)
(***************************************************************************)
\* (uint8_t) base64_chars.find(c): the index of c, or npos cut to 8 bits
RECURSIVE FindFrom(_, _)
FindFrom(c, k) ==
    IF k > Len(base64_chars) THEN 255
    ELSE IF base64_chars[k] = c THEN k - 1
    ELSE FindFrom(c, k + 1)

find(c) == FindFrom(c, 1)

\* eightBitChars[0..2] of the four looked-up sixBitChars, each cut to uint8_t
eightBitChars(s) ==
    <<((s[1] * 4) + ((s[2] % 64) \div 16)) % 256,
      (((s[2] % 16) * 16) + ((s[3] % 64) \div 4)) % 256,
      (((s[3] % 4) * 64) + s[4]) % 256>>

\* the while loop (lines 178-194), then the flush of a partial group
\* (lines 196-212); sixBitChars holds the i characters batched so far
RECURSIVE fallback_loop(_, _, _, _)
fallback_loop(encoded, pos, sixBitChars, ret) ==
    IF pos < Len(encoded) /\ encoded[pos + 1] # PadChar
    THEN LET batch == Append(sixBitChars, encoded[pos + 1])
         IN IF Len(batch) = 4
            THEN fallback_loop(encoded, pos + 1, <<>>,
                     ret \o eightBitChars([j \in 1..4 |-> find(batch[j])]))
            ELSE fallback_loop(encoded, pos + 1, batch, ret)
    ELSE LET i == Len(sixBitChars)
             filled == [j \in 1..4 |-> IF j <= i THEN sixBitChars[j] ELSE 0]
             bytes == eightBitChars([j \in 1..4 |-> find(filled[j])])
         IN IF i # 0 THEN ret \o SubSeq(bytes, 1, i - 1) ELSE ret

fallback_decode(encoded) == Ok(fallback_loop(encoded, 0, <<>>, <<>>))

(***************************************************************************)
(* The dispatch (base64_decode.cpp:217-228).  A probe of simdjson's        *)
(* implementation list yields, per instruction set, no implementation      *)
(* (nullptr), one the running CPU does not support, or a supported one.    *)
(***************************************************************************)
Probes == {"nullptr", "unsupported", "supported"}

\* avx2 != nullptr && avx2->supported_by_runtime_system()
Available(probe) == probe # "nullptr" /\ probe = "supported"

\* decode_branch with the two tests in the other order
decode_branch_sse4_first(avx2, sse4) ==
    IF Available(sse4) THEN "sse4_decode"
    ELSE IF Available(avx2) THEN "avx2_decode"
    ELSE "fallback_decode"

\* the branch decode takes for the two probes
decode_branch(avx2, sse4) ==
    IF Available(avx2) THEN "avx2_decode"
    ELSE IF Available(sse4) THEN "sse4_decode"
    ELSE "fallback_decode"

\* decode(encoded), under the probes avx2 and sse4
decode(encoded, avx2, sse4, w) ==
    LET branch == decode_branch(avx2, sse4)
    IN IF branch = "avx2_decode" THEN avx2_decode(encoded, w)
       ELSE IF branch = "sse4_decode" THEN sse4_decode(encoded, w)
       ELSE fallback_decode(encoded)

(***************************************************************************)
(* A reference base64 encoder (RFC 4648), the `encode` of the round-trip   *)
(* property.                                                               *)
(***************************************************************************)
RECURSIVE encode(_)
encode(b) ==
    IF Len(b) = 0 THEN <<>>
    ELSE IF Len(b) = 1
    THEN <<base64_chars[(b[1] \div 4) + 1],
           base64_chars[((b[1] % 4) * 16) + 1], PadChar, PadChar>>
    ELSE IF Len(b) = 2
    THEN <<base64_chars[(b[1] \div 4) + 1],
           base64_chars[((b[1] % 4) * 16 + (b[2] \div 16)) + 1],
           base64_chars[((b[2] % 16) * 4) + 1], PadChar>>
    ELSE <<base64_chars[(b[1] \div 4) + 1],
           base64_chars[((b[1] % 4) * 16 + (b[2] \div 16)) + 1],
           base64_chars[((b[2] % 16) * 4 + (b[3] \div 64)) + 1],
           base64_chars[(b[3] % 64) + 1]>> \o encode(SubSeq(b, 4, Len(b)))

(***************************************************************************)
(* Inputs.  An input is a lead of 0..MaxLead whole groups, which takes it  *)
(* across the 16- and 32-byte blocks, and a tail that varies.              *)
(***************************************************************************)
\* the byte triples of the lead: "ABCD", "+/9z", "abcd", "0123"
LeadBytes == <<(<<0, 16, 131>>), (<<251, 255, 115>>),
               (<<105, 183, 29>>), (<<211, 93, 183>>)>>

RECURSIVE Lead(_)
Lead(n) == IF n = 0 THEN <<>>
           ELSE Lead(n - 1) \o LeadBytes[((n - 1) % Len(LeadBytes)) + 1]

\* bytes of the tail of a plain input
SampleBytes == {0, 105, 255}

PlainInputs ==
    {Lead(n) \o t : n \in 0..MaxLead, t \in SeqsUpTo(SampleBytes, MaxTail)}

\* characters of the last group of a valid input: 'A' (value 0), 'P' (value
\* 15, whose low two and low four bits are all set) and '/' (value 63)
SampleChars == {65, 80, 47}

\* the last group of a valid input: none, or four characters of which the
\* last 0, 1 or 2 are '='
LastGroups ==
    {<<>>}
      \cup {<<a, b, c, d>> : a \in SampleChars, b \in SampleChars,
                             c \in SampleChars, d \in SampleChars}
      \cup {<<a, b, c, PadChar>> : a \in SampleChars, b \in SampleChars,
                                   c \in SampleChars}
      \cup {<<a, b, PadChar, PadChar>> : a \in SampleChars, b \in SampleChars}

ValidInputs == {encode(Lead(n)) \o g : n \in 0..MaxLead, g \in LastGroups}

\* inputs that are not valid: shorter than a group, with or without '=',
\* three '=' at the end, and a '=' in front of alphabet characters
ShortInputs ==
    {<<65>>, <<65, 80>>, <<65, 80, 47>>,
     <<PadChar>>, <<PadChar, PadChar>>, <<PadChar, PadChar, PadChar>>,
     <<65, PadChar>>, <<65, 80, PadChar>>, <<65, PadChar, PadChar>>}

MidPadGroups ==
    {<<PadChar, 65, 65, 65>>, <<65, 80, PadChar, 47>>,
     <<80, PadChar, PadChar, PadChar>>,
     <<65, 65, PadChar, 65, 65, 65, 65, 65>>,
     <<65, 80, PadChar, PadChar, 47, 47, 47, 47>>}

MalformedInputs ==
    ShortInputs \cup {encode(Lead(n)) \o g : n \in 0..MaxLead, g \in MidPadGroups}

\* s is base64 alphabet characters followed by 0, 1 or 2 '=', of a length
\* that is a multiple of 4
IsAlphabet(c) == \E k \in 1..Len(base64_chars) : base64_chars[k] = c

IsValid(s) ==
    /\ Len(s) % 4 = 0
    /\ \E p \in 0..Min(2, Len(s)) :
          /\ \A k \in 1..(Len(s) - p) : IsAlphabet(s[k])
          /\ \A k \in (Len(s) - p + 1)..Len(s) : s[k] = PadChar

(***************************************************************************)
(* Bit flags of the public header (src/unnamed/part_001).                  *)
(***************************************************************************)
\* 1 << k
Shl(k) == 2 ^ k

\* a | b on unsigned integers
RECURSIVE BitOr(_, _)
BitOr(a, b) ==
    IF a = 0 THEN b
    ELSE IF b = 0 THEN a
    ELSE (IF a % 2 = 1 \/ b % 2 = 1 THEN 1 ELSE 0) + 2 * BitOr(a \div 2, b \div 2)

\* a & b on unsigned integers
RECURSIVE BitAnd(_, _)
BitAnd(a, b) ==
    IF a = 0 \/ b = 0 THEN 0
    ELSE (IF a % 2 = 1 /\ b % 2 = 1 THEN 1 ELSE 0) + 2 * BitAnd(a \div 2, b \div 2)

\* enum class Error (part_001:36-51)
ErrorNone == 0
InvalidPath == 1
MissingExtensions == 2
UnknownRequiredExtension == 3
InvalidJson == 4
InvalidGltf == 5
InvalidOrMissingAssetField == 6
InvalidGLB == 6
MissingField == 7
MissingExternalBuffer == 8
UnsupportedVersion == 9

\* enum class Extensions (part_001:54-71)
ExtensionsNone == 0
KHR_texture_transform == Shl(1)
KHR_texture_basisu == Shl(2)
MSFT_texture_dds == Shl(3)
KHR_mesh_quantization == Shl(4)
EXT_meshopt_compression == Shl(5)

\* enum class Category (part_001:129-147)
CategoryNone == 0
Buffers == Shl(0)
BufferViews == BitOr(Shl(1), Buffers)
Accessors == BitOr(Shl(2), BufferViews)
Images == BitOr(Shl(3), BufferViews)
Samplers == Shl(4)
Textures == BitOr(BitOr(Shl(5), Images), Samplers)
Animations == BitOr(Shl(6), Accessors)
Cameras == Shl(7)
Materials == BitOr(Shl(8), Textures)
\* Meshes without its Materials dependency
Meshes_without_Materials == BitOr(Shl(9), Accessors)
Meshes == BitOr(BitOr(Shl(9), Accessors), Materials)
Skins == BitOr(BitOr(Shl(10), Accessors), Shl(11))
Nodes == BitOr(BitOr(BitOr(Shl(11), Cameras), Meshes), Skins)
Scenes == BitOr(Shl(12), Nodes)
Asset == Shl(13)
All == BitOr(BitOr(Asset, Scenes), Animations)

\* the sections of a document, which are the categories but Asset
Sections == {"Buffers", "BufferViews", "Accessors", "Images", "Samplers",
             "Textures", "Animations", "Cameras", "Materials", "Meshes",
             "Skins", "Nodes", "Scenes"}

\* the stored value of the Category of a section
CategoryOf(section) ==
    CASE section = "Buffers" -> Buffers
      [] section = "BufferViews" -> BufferViews
      [] section = "Accessors" -> Accessors
      [] section = "Images" -> Images
      [] section = "Samplers" -> Samplers
      [] section = "Textures" -> Textures
      [] section = "Animations" -> Animations
      [] section = "Cameras" -> Cameras
      [] section = "Materials" -> Materials
      [] section = "Meshes" -> Meshes
      [] section = "Skins" -> Skins
      [] section = "Nodes" -> Nodes
      [] section = "Scenes" -> Scenes

\* the flag of its own of a section: the 1 << k of its enumerator
OwnBit(section) ==
    CASE section = "Buffers" -> Shl(0)
      [] section = "BufferViews" -> Shl(1)
      [] section = "Accessors" -> Shl(2)
      [] section = "Images" -> Shl(3)
      [] section = "Samplers" -> Shl(4)
      [] section = "Textures" -> Shl(5)
      [] section = "Animations" -> Shl(6)
      [] section = "Cameras" -> Shl(7)
      [] section = "Materials" -> Shl(8)
      [] section = "Meshes" -> Shl(9)
      [] section = "Skins" -> Shl(10)
      [] section = "Nodes" -> Shl(11)
      [] section = "Scenes" -> Shl(12)

\* DependsOn with Samplers reading into Textures instead of the reverse
DependsOn_Samplers_on_Textures(section) ==
    CASE section = "BufferViews" -> {"Buffers"}
      [] section = "Accessors" -> {"BufferViews"}
      [] section = "Images" -> {"BufferViews"}
      [] section = "Samplers" -> {"Textures"}
      [] section = "Textures" -> {"Images"}
      [] section = "Animations" -> {"Accessors"}
      [] section = "Materials" -> {"Textures"}
      [] section = "Meshes" -> {"Accessors", "Materials"}
      [] section = "Skins" -> {"Accessors", "Nodes"}
      [] section = "Nodes" -> {"Cameras", "Meshes", "Skins"}
      [] section = "Scenes" -> {"Nodes"}
      [] OTHER -> {}

\* the sections an enumerator names on its right-hand side: by their
\* enumerators, and for Skins also Nodes by its bit ("Also depends on Nodes")
DependsOn(section) ==
    CASE section = "BufferViews" -> {"Buffers"}
      [] section = "Accessors" -> {"BufferViews"}
      [] section = "Images" -> {"BufferViews"}
      [] section = "Textures" -> {"Images", "Samplers"}
      [] section = "Animations" -> {"Accessors"}
      [] section = "Materials" -> {"Textures"}
      [] section = "Meshes" -> {"Accessors", "Materials"}
      [] section = "Skins" -> {"Accessors", "Nodes"}
      [] section = "Nodes" -> {"Cameras", "Meshes", "Skins"}
      [] section = "Scenes" -> {"Nodes"}
      [] OTHER -> {}

\* the sections reached from `from` over DependsOn in at most n steps
RECURSIVE Reach(_, _)
Reach(from, n) ==
    IF n = 0 THEN from
    ELSE Reach(from \cup UNION {DependsOn(s) : s \in from}, n - 1)

\* every section `section` depends on, directly or transitively
TransitiveDeps(section) == Reach(DependsOn(section), Cardinality(Sections))

(***************************************************************************)
(* The parse session (class glTF, part_001:181-245).  The header declares  *)
(* its fields and entry points; what parse and getParsedAsset do is taken  *)
(* from the design document of the library: extension gating, then the     *)
(* sections in one fixed order, halting at the first error, and a one-shot *)
(* hand-over of the Asset.                                                 *)
(***************************************************************************)
\* the fixed order in which parse visits the sections
ParseOrder == <<"Buffers", "BufferViews", "Accessors", "Images", "Samplers",
                "Textures", "Materials", "Cameras", "Meshes", "Skins",
                "Animations", "Nodes", "Scenes">>

\* pcParse before parse is called, and after it has returned
PcIdle == 0
PcDone == Len(ParseOrder) + 1

\* whether parse(categories) visits a section: its bit is in categories
SectionRequested(categories, section) ==
    BitAnd(categories, OwnBit(section)) # 0

\* the Extensions flag of an identifier, ExtensionsNone for one the library
\* has no flag for (namespace extensions, part_001:163-171, and the enum)
ExtensionOf(identifier) ==
    CASE identifier = "KHR_texture_transform" -> KHR_texture_transform
      [] identifier = "KHR_texture_basisu" -> KHR_texture_basisu
      [] identifier = "MSFT_texture_dds" -> MSFT_texture_dds
      [] identifier = "KHR_mesh_quantization" -> KHR_mesh_quantization
      [] identifier = "EXT_meshopt_compression" -> EXT_meshopt_compression
      [] OTHER -> ExtensionsNone

\* whether the caller's mask holds the flag of an identifier
InMask(mask, identifier) ==
    /\ ExtensionOf(identifier) # ExtensionsNone
    /\ BitAnd(mask, ExtensionOf(identifier)) = ExtensionOf(identifier)

\* Extension gating over the extensionsRequired list from position k on: the
\* error of the first identifier the session cannot serve.  Per the comments
\* of enum class Error, MissingExtensions is for an extension the client did
\* not mark as supported and UnknownRequiredExtension for one the library
\* does not support at all.
RECURSIVE checkExtensionsFrom(_, _, _)
checkExtensionsFrom(required, mask, k) ==
    IF k > Len(required) THEN ErrorNone
    ELSE IF ExtensionOf(required[k]) = ExtensionsNone THEN UnknownRequiredExtension
    ELSE IF ~InMask(mask, required[k]) THEN MissingExtensions
    ELSE checkExtensionsFrom(required, mask, k + 1)

\* gating that only looks for identifiers the library has no flag for
RECURSIVE checkExtensionsUnknownOnly(_, _, _)
checkExtensionsUnknownOnly(required, mask, k) ==
    IF k > Len(required) THEN ErrorNone
    ELSE IF ExtensionOf(required[k]) = ExtensionsNone THEN UnknownRequiredExtension
    ELSE checkExtensionsUnknownOnly(required, mask, k + 1)

checkExtensions_ignoring_mask(required, mask) ==
    checkExtensionsUnknownOnly(required, mask, 1)

checkExtensions(required, mask) == checkExtensionsFrom(required, mask, 1)

\* the errors a section's parse function can set
SectionErrors == {InvalidGltf, MissingField}

\* what a caller may pass to parse: the enumerators of Category
Requests == {CategoryOf(s) : s \in Sections} \cup {CategoryNone, Asset, All}

\* identifiers of the documents of the model: two the library has flags
\* for and one it has a string but no flag for
SampleIdentifiers == {"KHR_texture_transform", "KHR_mesh_quantization",
                      "EXT_texture_webp"}

\* masks a caller constructs the parser with
SampleMasks == {ExtensionsNone, KHR_texture_transform,
                BitOr(KHR_texture_transform, KHR_mesh_quantization)}

\* the sections of a document: all of them, or all but one
Documents == {Sections} \cup {Sections \ {s} : s \in Sections}

\* lengths of valid inputs for the resize: a few groups, and the same above
\* 2^24 - 16, 2^25 - 16 and 2^28 characters
SizeBases == {0, 16777200, 33554416, 268435456}

EncodedSizes == {b + 4 * k : b \in SizeBases, k \in 1..MaxGroups}

(***************************************************************************)
(* State.                                                                  *)
(***************************************************************************)
VARIABLES
    \* one call of one of the four functions of base64_decode.hpp
    encoded,      \* the string handed to the function
    plain,        \* the bytes it encodes, when it was made by encode
    origin,       \* "encode", "valid" or "malformed": how the input was made
    fn,           \* the function called, "none" before the call
    ret,          \* what the call returned, NotCalled before it
    avx2,         \* decode's probe of "haswell"
    sse4,         \* decode's probe of "westmere"
    branch,       \* the decoder decode called
    scan,         \* the padding search of the call: count and indices read
    \* the resize at the end of a vector decoder, for an input given by its
    \* length and its number of trailing '='
    encodedSize,  \* encoded.size()
    padding,      \* the trailing '=' the padding search counted
    resizedBy,    \* the decoder whose resize ran, "none" before it
    newSize,      \* ret.size() after the resize
    written,      \* the bytes the block loop wrote (out, at its end)
    \* one expression on two Category variables
    x,            \* the left operand
    y,            \* the right operand
    op,           \* the operator applied, "none" before it
    value,        \* the value of the expression
    \* one parse session (class glTF) and the document it was loaded from
    docSections,  \* the sections the document has
    required,     \* the extensionsRequired list of the document
    extensions,   \* glTF::extensions, the caller's mask
    errorCode,    \* glTF::errorCode
    parsedAsset,  \* glTF::parsedAsset: "asset" while the session owns it
    sections,     \* the sections of the Asset parsed so far, in order
    requested,    \* the categories parse was called with
    pcParse,      \* where parse is: PcIdle, a position of ParseOrder, PcDone
    retrieved     \* what the getParsedAsset calls returned, in order

decodeVars == <<encoded, plain, origin, fn, ret, avx2, sse4, branch, scan>>

lengthVars == <<encodedSize, padding, resizedBy, newSize, written>>

categoryVars == <<x, y, op, value>>

parseVars == <<docSections, required, extensions, errorCode, parsedAsset,
               sections, requested, pcParse, retrieved>>

vars == <<decodeVars, parseVars, lengthVars, categoryVars>>

\* no call made yet
DecodeIdle ==
    /\ fn = "none"
    /\ ret = NotCalled
    /\ avx2 = "unprobed"
    /\ sse4 = "unprobed"
    /\ branch = "none"
    /\ scan = NoScan

DecodeInit ==
    /\ \/ \E b \in PlainInputs :
            plain = b /\ encoded = encode(b) /\ origin = "encode"
       \/ \E s \in ValidInputs :
            plain = <<>> /\ encoded = s /\ origin = "valid"
       \/ \E s \in MalformedInputs :
            plain = <<>> /\ encoded = s /\ origin = "malformed"
    /\ DecodeIdle

\* no resize made
LengthIdle ==
    /\ resizedBy = "none"
    /\ newSize = 0
    /\ written = 0

\* no operator applied
CategoryIdle ==
    /\ op = "none"
    /\ value = 0

\* a session as its constructor leaves it (errorCode = Error::None)
SessionIdle ==
    /\ errorCode = ErrorNone
    /\ parsedAsset = "asset"
    /\ sections = <<>>
    /\ requested = CategoryNone
    /\ pcParse = PcIdle
    /\ retrieved = <<>>

ParseInit ==
    /\ docSections \in Documents
    /\ required \in SeqsUpTo(SampleIdentifiers, MaxRequired)
    /\ extensions \in SampleMasks
    /\ SessionIdle

CallAvx2 ==
    /\ fn = "none"
    /\ fn' = "avx2_decode"
    /\ \E w \in WildReadsOf(encoded, avx2_dataSetSize) :
          /\ ret' = avx2_decode(encoded, w)
          /\ scan' = PaddingScan(encoded, avx2_dataSetSize, w)
    /\ UNCHANGED <<encoded, plain, origin, avx2, sse4, branch, parseVars,
                   lengthVars, categoryVars>>

CallSse4 ==
    /\ fn = "none"
    /\ fn' = "sse4_decode"
    /\ \E w \in WildReadsOf(encoded, sse4_dataSetSize) :
          /\ ret' = sse4_decode(encoded, w)
          /\ scan' = PaddingScan(encoded, sse4_dataSetSize, w)
    /\ UNCHANGED <<encoded, plain, origin, avx2, sse4, branch, parseVars,
                   lengthVars, categoryVars>>

CallFallback ==
    /\ fn = "none"
    /\ fn' = "fallback_decode"
    /\ ret' = fallback_decode(encoded)
    /\ scan' = NoScan
    /\ UNCHANGED <<encoded, plain, origin, avx2, sse4, branch, parseVars,
                   lengthVars, categoryVars>>

CallDecode ==
    /\ fn = "none"
    /\ fn' = "decode"
    /\ \E a \in Probes, s \in Probes,
          w \in WildReadsOf(encoded, avx2_dataSetSize)
                  \cup WildReadsOf(encoded, sse4_dataSetSize) :
          /\ avx2' = a
          /\ sse4' = s
          /\ branch' = decode_branch(a, s)
          /\ ret' = decode(encoded, a, s, w)
          /\ scan' = CASE decode_branch(a, s) = "avx2_decode" ->
                             PaddingScan(encoded, avx2_dataSetSize, w)
                        [] decode_branch(a, s) = "sse4_decode" ->
                             PaddingScan(encoded, sse4_dataSetSize, w)
                        [] OTHER -> NoScan
    /\ UNCHANGED <<encoded, plain, origin, parseVars,
                   lengthVars, categoryVars>>

\* parse(categories), up to and including extension gating
ParseBegin ==
    /\ pcParse = PcIdle
    /\ \E categories \in Requests : requested' = categories
    /\ LET error == checkExtensions(required, extensions)
       IN /\ errorCode' = error
          /\ pcParse' = IF error # ErrorNone THEN PcDone ELSE 1
    /\ UNCHANGED <<docSections, required, extensions, parsedAsset, sections,
                   retrieved, decodeVars,
                   lengthVars, categoryVars>>

\* the position after k in ParseOrder
NextPosition(k) == k + 1

\* ParseSection that records the error and goes on to the next section
ParseSection_keeps_going ==
    /\ pcParse \in 1..Len(ParseOrder)
    /\ LET section == ParseOrder[pcParse]
       IN IF SectionRequested(requested, section) /\ section \in docSections
          THEN \/ /\ sections' = Append(sections, section)
                  /\ UNCHANGED errorCode
               \/ /\ \E error \in SectionErrors : errorCode' = error
                  /\ UNCHANGED sections
          ELSE UNCHANGED <<sections, errorCode>>
    /\ pcParse' = NextPosition(pcParse)
    /\ UNCHANGED <<docSections, required, extensions, parsedAsset, requested,
                   retrieved, decodeVars,
                   lengthVars, categoryVars>>

\* parse at one section: skipped when not requested or not in the document,
\* else parsed into the Asset or failed with an error, which ends parse
ParseSection ==
    /\ pcParse \in 1..Len(ParseOrder)
    /\ errorCode = ErrorNone
    /\ LET section == ParseOrder[pcParse]
       IN IF SectionRequested(requested, section) /\ section \in docSections
          THEN \/ /\ sections' = Append(sections, section)
                  /\ pcParse' = NextPosition(pcParse)
                  /\ UNCHANGED errorCode
               \/ /\ \E error \in SectionErrors : errorCode' = error
                  /\ pcParse' = PcDone
                  /\ UNCHANGED sections
          ELSE /\ pcParse' = NextPosition(pcParse)
               /\ UNCHANGED <<sections, errorCode>>
    /\ UNCHANGED <<docSections, required, extensions, parsedAsset, requested,
                   retrieved, decodeVars,
                   lengthVars, categoryVars>>

\* getParsedAsset that hands out the Asset and keeps it
GetParsedAsset_keeps_asset ==
    /\ pcParse = PcDone
    /\ Len(retrieved) < MaxRetrievals
    /\ retrieved' = Append(retrieved, IF errorCode # ErrorNone THEN "null"
                                      ELSE parsedAsset)
    /\ UNCHANGED <<docSections, required, extensions, errorCode, parsedAsset,
                   sections, requested, pcParse, decodeVars,
                   lengthVars, categoryVars>>

\* getParsedAsset(): nothing after a failed parse, else the Asset moved out
\* of the session, which leaves parsedAsset null
GetParsedAsset ==
    /\ pcParse = PcDone
    /\ Len(retrieved) < MaxRetrievals
    /\ IF errorCode # ErrorNone
       THEN /\ retrieved' = Append(retrieved, "null")
            /\ UNCHANGED parsedAsset
       ELSE /\ retrieved' = Append(retrieved, parsedAsset)
            /\ parsedAsset' = "null"
    /\ UNCHANGED <<docSections, required, extensions, errorCode, sections,
                   requested, pcParse, decodeVars,
                   lengthVars, categoryVars>>

\* the resize at the end of avx2_decode (base64_decode.cpp:89-92)
ResizeAvx2 ==
    /\ resizedBy = "none"
    /\ resizedBy' = "avx2_decode"
    /\ newSize' = DecodedSize(encodedSize - padding)
    /\ written' = BlockLoopOut(encodedSize, avx2_dataSetSize)
    /\ UNCHANGED <<encodedSize, padding, decodeVars, parseVars, categoryVars>>

\* the resize at the end of sse4_decode (base64_decode.cpp:155-158)
ResizeSse4 ==
    /\ resizedBy = "none"
    /\ resizedBy' = "sse4_decode"
    /\ newSize' = DecodedSize(encodedSize - padding)
    /\ written' = BlockLoopOut(encodedSize, sse4_dataSetSize)
    /\ UNCHANGED <<encodedSize, padding, decodeVars, parseVars, categoryVars>>

\* x & y
CategoryAnd ==
    /\ op = "none"
    /\ op' = "&"
    /\ value' = BitAnd(x, y)
    /\ UNCHANGED <<x, y, decodeVars, parseVars, lengthVars>>

\* x | y
CategoryOr ==
    /\ op = "none"
    /\ op' = "|"
    /\ value' = BitOr(x, y)
    /\ UNCHANGED <<x, y, decodeVars, parseVars, lengthVars>>

\* x |= y with an operator that stored the union in its left operand
CategoryOrAssign_stores ==
    /\ op = "none"
    /\ op' = "|="
    /\ value' = BitOr(x, y)
    /\ x' = BitOr(x, y)
    /\ UNCHANGED <<y, decodeVars, parseVars, lengthVars>>

\* x |= y: operator|=(Category a, Category b) takes both operands by value
\* and returns a | b
CategoryOrAssign ==
    /\ op = "none"
    /\ op' = "|="
    /\ value' = BitOr(x, y)
    /\ UNCHANGED <<x, y, decodeVars, parseVars, lengthVars>>

DecodeNext == CallAvx2 \/ CallSse4 \/ CallFallback \/ CallDecode

ParseNext == ParseBegin \/ ParseSection \/ GetParsedAsset

LengthNext == ResizeAvx2 \/ ResizeSse4

CategoryNext == CategoryAnd \/ CategoryOr \/ CategoryOrAssign

\* no input, no document, no resize and no operands: the values of the
\* variables of the parts a specification leaves alone
NoInput == plain = <<>> /\ encoded = <<>> /\ origin = "encode" /\ DecodeIdle

NoDocument ==
    /\ docSections = Sections /\ required = <<>> /\ extensions = ExtensionsNone
    /\ SessionIdle

NoResize == encodedSize = 0 /\ padding = 0 /\ LengthIdle

NoOperands == x = CategoryNone /\ y = CategoryNone /\ CategoryIdle

\* the decoder, called on every input of the model
Init == DecodeInit /\ NoDocument /\ NoResize /\ NoOperands

Next == DecodeNext

Spec == Init /\ [][Next]_vars

\* the parse session, on every document of the model
ParseSpecInit == ParseInit /\ NoInput /\ NoResize /\ NoOperands

ParseSpec == ParseSpecInit /\ [][ParseNext]_vars

\* the resize of the vector decoders, on valid inputs of every length of the
\* model with 0, 1 or 2 trailing '='
LengthSpecInit ==
    /\ encodedSize \in EncodedSizes
    /\ padding \in 0..2
    /\ LengthIdle
    /\ NoInput /\ NoDocument /\ NoOperands

LengthSpec == LengthSpecInit /\ [][LengthNext]_vars

\* the Category operators, on every pair of operands of the model
CategorySpecInit ==
    /\ x \in Requests
    /\ y \in Requests
    /\ CategoryIdle
    /\ NoInput /\ NoDocument /\ NoResize

CategorySpec == CategorySpecInit /\ [][CategoryNext]_vars

(***************************************************************************)
(* Properties of the decoder (specification Spec).                         *)
(***************************************************************************)
\* what a decoder can return for an input, over all outcomes of its reads
\* outside the vector
OutcomesOf(decoder, input) ==
    CASE decoder = "avx2_decode" -> {avx2_decode(input, w) : w \in WildReads}
      [] decoder = "sse4_decode" -> {sse4_decode(input, w) : w \in WildReads}
      [] decoder = "fallback_decode" -> {fallback_decode(input)}

\* C1: round trip.  Whichever of the four functions is called on the
\* reference encoding of a byte sequence, it returns that byte sequence.
C1_RoundTrip ==
    (origin = "encode" /\ fn # "none") => ret = Ok(plain)

\* The round trip of C1 for the byte sequences that are not empty.
RoundTripNonEmpty ==
    (origin = "encode" /\ fn # "none" /\ plain # <<>>) => ret = Ok(plain)

\* C2: the three decoders agree.  On a valid input (alphabet characters, then
\* 0, 1 or 2 '=', a multiple of 4 long) each vector decoder returns what
\* fallback_decode returns for it, byte for byte.
C2_DecodersAgree ==
    (IsValid(encoded) /\ fn \in {"avx2_decode", "sse4_decode", "fallback_decode"})
        => ret = fallback_decode(encoded)

\* C9: empty input gives empty output.  decode on the empty string returns
\* the empty byte sequence, whichever decoder the dispatch selects.
C9_EmptyInput ==
    (encoded = <<>> /\ fn = "decode") => ret = Ok(<<>>)

\* C10: dispatch priority.  decode returns the result of avx2_decode when
\* AVX2 is available, else of sse4_decode when SSE4 is available, else of
\* fallback_decode; the fallback is selected exactly when neither is.
C10_DispatchPriority ==
    fn = "decode" =>
        /\ branch = IF avx2 = "supported" THEN "avx2_decode"
                    ELSE IF sse4 = "supported" THEN "sse4_decode"
                    ELSE "fallback_decode"
        /\ ret \in OutcomesOf(branch, encoded)
        /\ (branch = "fallback_decode")
              <=> (avx2 # "supported" /\ sse4 # "supported")

\* C10's case: decode took the SSE4 path because the AVX2 implementation is
\* there but unsupported, on an input of more than one block.
C10_Witness ==
    /\ fn = "decode"
    /\ avx2 = "unsupported" /\ sse4 = "supported"
    /\ branch = "sse4_decode"
    /\ ret.kind = "ok" /\ Len(ret.bytes) > 24

\* the characters of s before its first '='
RECURSIVE BeforeFirstPad(_)
BeforeFirstPad(s) ==
    IF s = <<>> \/ Head(s) = PadChar THEN <<>>
    ELSE <<Head(s)>> \o BeforeFirstPad(Tail(s))

\* C11: a '=' is the start of padding for every decoder.  What avx2_decode,
\* sse4_decode and fallback_decode return for an input is what they return
\* for its characters before the first '=' alone: no character at or after
\* the first '=' contributes to or alters an output byte.
C11_FirstPadEndsInput ==
    fn \in {"avx2_decode", "sse4_decode", "fallback_decode"}
        => ret \in OutcomesOf(fn, BeforeFirstPad(encoded))

\* The part of C11 that is about fallback_decode.
FallbackStopsAtFirstPad ==
    fn = "fallback_decode" => ret = fallback_decode(BeforeFirstPad(encoded))

(***************************************************************************)
(* Properties of the parse session (specification ParseSpec).              *)
(***************************************************************************)
\* the sections parsed so far
Parsed == {sections[k] : k \in DOMAIN sections}

\* the position at which a parsed section was parsed
PositionOf(section) == CHOOSE k \in DOMAIN sections : sections[k] = section

\* C3: dependency closure of Category.  The stored value of a requested
\* category contains every bit of the stored value of every category it
\* depends on, directly or transitively, so that a parse of it on a document
\* with all sections parses all of them.
C3_DependencyClosure ==
    \A C \in Sections :
        requested = CategoryOf(C) =>
            /\ \A D \in TransitiveDeps(C) :
                  BitAnd(CategoryOf(C), CategoryOf(D)) = CategoryOf(D)
            /\ (pcParse = PcDone /\ errorCode = ErrorNone /\ docSections = Sections)
                  => TransitiveDeps(C) \subseteq Parsed

\* C4: the closure of Meshes is exact.  A successful parse(Category::Meshes)
\* of a document with all sections has parsed Buffers, BufferViews,
\* Accessors, Images, Samplers, Textures, Materials and Meshes, and none of
\* Animations, Skins, Cameras, Nodes, Scenes.
C4_MeshesClosure ==
    (/\ requested = Meshes
     /\ pcParse = PcDone
     /\ errorCode = ErrorNone
     /\ docSections = Sections)
        => Parsed = {"Buffers", "BufferViews", "Accessors", "Images",
                     "Samplers", "Textures", "Materials", "Meshes"}

\* C4's case: parse(Category::Meshes) has returned without error on a
\* document with all sections.
C4_Witness ==
    /\ requested = Meshes
    /\ pcParse = PcDone
    /\ errorCode = ErrorNone
    /\ docSections = Sections
    /\ sections # <<>>

Lifecycle ==
    IF pcParse # PcDone THEN "Unparsed"
    ELSE IF retrieved = <<>> THEN "Parsed"
    ELSE "Retrieved"

\* C6: one-shot retrieval.  After a successful parse the first
\* getParsedAsset returns the Asset and every later one returns nothing, the
\* session owns the Asset until it is retrieved and never after, and the
\* lifecycle only moves Unparsed -> Parsed -> Retrieved.
C6_OneShotRetrieval ==
    /\ [](errorCode = ErrorNone =>
            /\ \A k \in DOMAIN retrieved :
                  retrieved[k] = IF k = 1 THEN "asset" ELSE "null"
            /\ (Lifecycle = "Retrieved") <=> (parsedAsset = "null"))
    /\ [][Lifecycle' # Lifecycle =>
            \/ Lifecycle = "Unparsed" /\ Lifecycle' = "Parsed"
            \/ Lifecycle = "Parsed" /\ Lifecycle' = "Retrieved"]_vars

\* C6's case: three retrievals after a successful parse of everything.
C6_Witness ==
    /\ requested = All
    /\ errorCode = ErrorNone
    /\ Len(sections) > 1
    /\ Len(retrieved) >= 3

\* C7: the error is sticky.  Once errorCode is not Error::None no step
\* changes it, and no step parses a further section.
C7_StickyError ==
    [][errorCode # ErrorNone =>
          (errorCode' = errorCode /\ sections' = sections)]_vars

\* C7's case: a section failed after others were parsed, and the session
\* was used again afterwards.
C7_Witness ==
    /\ errorCode \in SectionErrors
    /\ sections # <<>>
    /\ pcParse = PcDone
    /\ retrieved # <<>>

\* the positions of extensionsRequired whose identifier is not in the mask
NotInMask == {k \in DOMAIN required : ~InMask(extensions, required[k])}

\* C8 as stated: a parse of a document that requires an identifier not in
\* the caller's mask returns Error::UnknownRequiredExtension, no section
\* parsed.
C8_UnknownRequiredExtension ==
    (pcParse # PcIdle /\ NotInMask # {}) =>
        /\ pcParse = PcDone
        /\ errorCode = UnknownRequiredExtension
        /\ sections = <<>>

\* C8 amended: such a parse returns an error, no section parsed; the error
\* is MissingExtensions when the first such identifier is one the library
\* has an Extensions flag for and UnknownRequiredExtension when it has none.
C8_GatingError ==
    (pcParse # PcIdle /\ NotInMask # {}) =>
        LET first == CHOOSE k \in NotInMask : \A j \in NotInMask : k <= j
        IN /\ pcParse = PcDone
           /\ errorCode = IF ExtensionOf(required[first]) = ExtensionsNone
                          THEN UnknownRequiredExtension
                          ELSE MissingExtensions
           /\ sections = <<>>

\* C8's case: the document requires a flagged identifier the mask lacks,
\* after one the mask has, and parse has returned.
C8_Witness ==
    /\ pcParse = PcDone
    /\ required = <<"KHR_texture_transform", "KHR_mesh_quantization">>
    /\ extensions = KHR_texture_transform
    /\ errorCode = MissingExtensions
(***************************************************************************)
(* Properties of the output length and of the padding search               *)
(* (specifications LengthSpec and Spec).                                   *)
(***************************************************************************)
\* the '=' characters at the end of s
RECURSIVE TrailingPads(_)
TrailingPads(s) ==
    IF s = <<>> \/ s[Len(s)] # PadChar THEN 0
    ELSE 1 + TrailingPads(SubSeq(s, 1, Len(s) - 1))

\* C12: output length.  For an input of encodedSize characters of which
\* padding (0, 1 or 2) are trailing '=', the resize of each vector decoder
\* leaves exactly floor(0.75 * (encodedSize - padding)) bytes, and never more
\* than the block loop wrote (24 or 12 for each block).
C12_OutputLength ==
    resizedBy # "none" =>
        /\ newSize = (3 * (encodedSize - padding)) \div 4
        /\ newSize <= written

\* The length of C12 on the calls of Spec, whose valid inputs are shorter
\* than 2^22 characters: every decoder returns floor(0.75 * (length - pads))
\* bytes for a valid input that is not empty.
OutputLengthOfShortValid ==
    (IsValid(encoded) /\ encoded # <<>>
        /\ fn \in {"avx2_decode", "sse4_decode", "fallback_decode"})
        => /\ ret.kind = "ok"
           /\ Len(ret.bytes) = (3 * (Len(encoded) - TrailingPads(encoded))) \div 4

\* On a valid input that is not empty the padding search counts the
\* trailing '=' of the input, the `padding` of LengthSpec.
PaddingCountOfValid ==
    (IsValid(encoded) /\ encoded # <<>> /\ fn \in {"avx2_decode", "sse4_decode"})
        => scan.padding = TrailingPads(encoded)

\* C13: the padding search stays in bounds.  In avx2_decode and sse4_decode,
\* for every input, the loop that counts the trailing '=' reads input[i]
\* only for 0 <= i < encodedSize (i, encodedSize - 1 and encodedSize - 3
\* being size_t values), and it ends without a fault.
C13_PaddingScanInBounds ==
    fn \in {"avx2_decode", "sse4_decode"} =>
        /\ scan.oob = 0
        /\ ~scan.fault
        /\ \A k \in 1..Len(scan.reads) :
              0 <= scan.reads[k] /\ scan.reads[k] < Len(encoded)

\* The padding search is in bounds for every input but the empty one and
\* "===".
PaddingScanInBoundsOtherwise ==
    (fn \in {"avx2_decode", "sse4_decode"}
        /\ encoded # <<>> /\ encoded # <<PadChar, PadChar, PadChar>>)
        => scan.oob = 0

(***************************************************************************)
(* Properties of the Category operators (specification CategorySpec).      *)
(***************************************************************************)
\* C14: operator|= returns the union and leaves its left operand alone.
\* The statement x |= y evaluates to the bitwise union of x and y, and x
\* holds after it the value it held before.
C14_OrAssignKeepsLeftOperand ==
    [][op' = "|=" => (value' = BitOr(x, y) /\ x' = x /\ y' = y)]_vars

\* C14's case: x |= y was applied to operands whose union is neither of
\* them, and x is not the union.
C14_Witness ==
    /\ op = "|="
    /\ value = BitOr(x, y)
    /\ value # x /\ value # y
    /\ x = Meshes /\ y = Cameras

=============================================================================
